---- MODULE Spec2Model ----
(***************************************************************************)
(* Model of check_inventory.py: the normalisation pass that forces numeric *)
(* latitude/longitude/elevation attributes on every <station> of an SC3ML  *)
(* inventory and, with --fix-channels, normalises <stream> azimuth, dip    *)
(* and sampleRate.                                                         *)
(*                                                                         *)
(* A Python str is a sequence of one-character strings, so that strip(),   *)
(* lower(), split("}") and float() are computed rather than assumed.       *)
(* (elem.text or "") is what every read of a text goes through, so a text  *)
(* of None and a text of "" are both the empty sequence.                   *)
(***************************************************************************)
EXTENDS Integers, Sequences, FiniteSets, TLC

\* ------------------------------------------------------------ characters

UpperChars == <<"A","B","C","D","E","F","G","H","I","J","K","L","M",
                "N","O","P","Q","R","S","T","U","V","W","X","Y","Z">>

LowerChars == <<"a","b","c","d","e","f","g","h","i","j","k","l","m",
                "n","o","p","q","r","s","t","u","v","w","x","y","z">>

Digits == <<"0","1","2","3","4","5","6","7","8","9">>

\* str.lower() and str.upper() on one character
LowerOf == [c \in {UpperChars[i] : i \in 1..26} |->
               LowerChars[CHOOSE i \in 1..26 : UpperChars[i] = c]]

UpperOf == [c \in {LowerChars[i] : i \in 1..26} |->
               UpperChars[CHOOSE i \in 1..26 : LowerChars[i] = c]]

LowerChar(c) == IF c \in DOMAIN LowerOf THEN LowerOf[c] ELSE c

UpperChar(c) == IF c \in DOMAIN UpperOf THEN UpperOf[c] ELSE c

RECURSIVE lower(_)
lower(s) == IF s = <<>> THEN <<>> ELSE <<LowerChar(Head(s))>> \o lower(Tail(s))

RECURSIVE upper(_)
upper(s) == IF s = <<>> THEN <<>> ELSE <<UpperChar(Head(s))>> \o upper(Tail(s))

IsSpace(c) == c \in {" ", "\t", "\n", "\r"}

IsDigit(c) == \E i \in 1..10 : Digits[i] = c

DigitVal(c) == (CHOOSE i \in 1..10 : Digits[i] = c) - 1

\* position of the first occurrence of a character of cs in s, 0 when none
IndexOf(s, cs) ==
    IF \E i \in 1..Len(s) : s[i] \in cs
    THEN CHOOSE i \in 1..Len(s) : s[i] \in cs /\ \A j \in 1..(i-1) : s[j] \notin cs
    ELSE 0

\* str.strip()
RECURSIVE lstrip(_)
lstrip(s) == IF s # <<>> /\ IsSpace(Head(s)) THEN lstrip(Tail(s)) ELSE s

RECURSIVE rstrip(_)
rstrip(s) ==
    IF s # <<>> /\ IsSpace(s[Len(s)]) THEN rstrip(SubSeq(s, 1, Len(s) - 1)) ELSE s

strip(s) == rstrip(lstrip(s))

\* ------------------------------------------------------------ tags

\* mutant: the namespace is stripped but the case is kept
local_cased(tag) ==
    LET i == IndexOf(tag, {"}"})
    IN  IF i > 0 THEN SubSeq(tag, i + 1, Len(tag)) ELSE tag

\* local(tag): the part after the first "}" when there is one, lower-cased
local(tag) ==
    LET i == IndexOf(tag, {"}"})
    IN  lower(IF i > 0 THEN SubSeq(tag, i + 1, Len(tag)) ELSE tag)

\* ensure_child's ns: tag.split("}", 1)[0] + "}" when the tag holds a "}"
NsPrefix(tag) ==
    LET i == IndexOf(tag, {"}"})
    IN  IF i > 0 THEN SubSeq(tag, 1, i) ELSE <<>>

\* ------------------------------------------------------------ float()

AllDigits(s) == \A i \in 1..Len(s) : IsDigit(s[i])

\* digits [ "." [digits] ] | "." digits
IsMantissa(m) ==
    LET d == IndexOf(m, {"."})
    IN  IF d = 0
        THEN Len(m) > 0 /\ AllDigits(m)
        ELSE /\ AllDigits(SubSeq(m, 1, d - 1))
             /\ AllDigits(SubSeq(m, d + 1, Len(m)))
             /\ Len(m) > 1

Unsigned(s) == IF s # <<>> /\ Head(s) \in {"+", "-"} THEN Tail(s) ELSE s

IsExponent(e) == Unsigned(e) # <<>> /\ AllDigits(Unsigned(e))

IsDecimal(u) ==
    LET k == IndexOf(u, {"e", "E"})
    IN  IF k = 0
        THEN IsMantissa(u)
        ELSE IsMantissa(SubSeq(u, 1, k - 1)) /\ IsExponent(SubSeq(u, k + 1, Len(u)))

InfNames == { <<"i","n","f">>, <<"i","n","f","i","n","i","t","y">> }

NanNames == { <<"n","a","n">> }

\* is_float(s): float(s) does not raise.  float() strips white space, takes
\* an optional sign, then inf / infinity / nan in any letter case or a decimal
\* literal with an optional exponent.  (Digit-group underscores and non-ASCII
\* digits are outside the alphabet of the model's texts.)
is_float(s) ==
    LET u == Unsigned(strip(s))
    IN  lower(u) \in InfNames \/ lower(u) \in NanNames \/ IsDecimal(u)

\* mutant: the default is forgotten
norm_num_keep(s, default) == s

norm_num_or_default(s, default) == IF is_float(s) THEN s ELSE default

\* ------------------------------------------------------------ float values
\* A float is [kind, neg, n, d]: kind "fin" is the number (-1)^neg * n / d
\* (a signed zero when n = 0), "inf" a signed infinity, "nan" a NaN.

RECURSIVE Pow10(_)
Pow10(k) == IF k = 0 THEN 1 ELSE 10 * Pow10(k - 1)

RECURSIVE DigitsVal(_)
DigitsVal(s) ==
    IF s = <<>> THEN 0 ELSE 10 * DigitsVal(SubSeq(s, 1, Len(s) - 1)) + DigitVal(s[Len(s)])

RECURSIVE Gcd(_, _)
Gcd(a, b) == IF b = 0 THEN a ELSE Gcd(b, a % b)

Fin(neg, n, d) ==
    LET g == IF n = 0 THEN d ELSE Gcd(n, d)
    IN  [kind |-> "fin", neg |-> neg, n |-> n \div g, d |-> d \div g]

One == Fin(FALSE, 1, 1)

\* float(s) for a string is_float accepts
float(s) ==
    LET t    == strip(s)
        neg  == t # <<>> /\ Head(t) = "-"
        u    == Unsigned(t)
        k    == IndexOf(u, {"e", "E"})
        m    == IF k = 0 THEN u ELSE SubSeq(u, 1, k - 1)
        e    == IF k = 0 THEN <<>> ELSE SubSeq(u, k + 1, Len(u))
        eneg == e # <<>> /\ Head(e) = "-"
        ex   == DigitsVal(Unsigned(e))
        d    == IndexOf(m, {"."})
        ip   == IF d = 0 THEN m ELSE SubSeq(m, 1, d - 1)
        fp   == IF d = 0 THEN <<>> ELSE SubSeq(m, d + 1, Len(m))
        mant == DigitsVal(ip \o fp)
    IN  IF lower(u) \in InfNames THEN [kind |-> "inf", neg |-> neg, n |-> 1, d |-> 1]
        ELSE IF lower(u) \in NanNames THEN [kind |-> "nan", neg |-> FALSE, n |-> 0, d |-> 1]
        ELSE IF eneg THEN Fin(neg, mant, Pow10(Len(fp) + ex))
        ELSE Fin(neg, mant * Pow10(ex), Pow10(Len(fp)))

IsZero(v) == v.kind = "fin" /\ v.n = 0

\* fnum / fden; fden is never zero where fix_stream divides
Divide(a, b) ==
    IF a.kind = "nan" \/ b.kind = "nan" THEN [kind |-> "nan", neg |-> FALSE, n |-> 0, d |-> 1]
    ELSE IF a.kind = "inf" /\ b.kind = "inf" THEN [kind |-> "nan", neg |-> FALSE, n |-> 0, d |-> 1]
    ELSE IF a.kind = "inf" THEN [kind |-> "inf", neg |-> (a.neg # b.neg), n |-> 1, d |-> 1]
    ELSE IF b.kind = "inf" THEN Fin(a.neg # b.neg, 0, 1)
    ELSE Fin(a.neg # b.neg, a.n * b.d, a.d * b.n)

RECURSIVE NatStr(_)
NatStr(n) == IF n < 10 THEN <<Digits[n + 1]>> ELSE NatStr(n \div 10) \o <<Digits[(n % 10) + 1]>>

RECURSIVE Pad(_, _)
Pad(s, w) == IF Len(s) >= w THEN s ELSE Pad(<<"0">> \o s, w)

\* f"{val:.6f}": six digits after the point, round half to even
Format6(v) ==
    IF v.kind = "nan" THEN <<"n","a","n">>
    ELSE IF v.kind = "inf" THEN (IF v.neg THEN <<"-">> ELSE <<>>) \o <<"i","n","f">>
    ELSE LET ip == v.n \div v.d
             x  == (v.n % v.d) * 1000000
             f0 == x \div v.d
             r2 == 2 * (x % v.d)
             f  == IF r2 > v.d \/ (r2 = v.d /\ f0 % 2 = 1) THEN f0 + 1 ELSE f0
         IN  (IF v.neg THEN <<"-">> ELSE <<>>)
               \o NatStr(ip + (f \div 1000000)) \o <<".">> \o Pad(NatStr(f % 1000000), 6)

\* ------------------------------------------------------------ names
\* The lower-case local names and attribute names the code's literals spell.

network == <<"n","e","t","w","o","r","k">>

station == <<"s","t","a","t","i","o","n">>

sensorlocation == <<"s","e","n","s","o","r","l","o","c","a","t","i","o","n">>

stream == <<"s","t","r","e","a","m">>

code == <<"c","o","d","e">>

latitude == <<"l","a","t","i","t","u","d","e">>

longitude == <<"l","o","n","g","i","t","u","d","e">>

elevation == <<"e","l","e","v","a","t","i","o","n">>

azimuth == <<"a","z","i","m","u","t","h">>

dip == <<"d","i","p">>

samplerate == <<"s","a","m","p","l","e","r","a","t","e">>

sampleratenumerator == <<"s","a","m","p","l","e","r","a","t","e","n","u","m","e","r","a","t","o","r">>

sampleratedenominator == <<"s","a","m","p","l","e","r","a","t","e","d","e","n","o","m","i","n","a","t","o","r">>

\* the default "0.0" of norm_num_or_default and of fix_stream
DefaultText == <<"0",".","0">>

\* ------------------------------------------------------------ element tree
\* A document is the sequence of its elements; an element is
\* [tag, parent, attrs, text], parent 0 for the root.  The children of an
\* element are in increasing position, and ET.SubElement appends at the end.
\* An attribute is None (absent) or Some(value).

AttrNames == {code, latitude, longitude, elevation}

None == <<>>

Some(v) == <<v>>

NoAttrs == [a \in AttrNames |-> None]

\* attrib.get(a, "")
AttrGet(e, a) == IF e.attrs[a] = None THEN <<>> ELSE e.attrs[a][1]

\* list(elem)
Children(d, p) ==
    LET upto[i \in 0..Len(d)] ==
            IF i = 0 THEN <<>>
            ELSE IF d[i].parent = p THEN Append(upto[i - 1], i) ELSE upto[i - 1]
    IN  upto[Len(d)]

\* root.iter(): depth-first, document order
RECURSIVE IterFrom(_, _)
IterFrom(d, stack) ==
    IF stack = <<>> THEN <<>>
    ELSE <<Head(stack)>> \o IterFrom(d, Children(d, Head(stack)) \o Tail(stack))

Iter(d) == IF d = <<>> THEN <<>> ELSE IterFrom(d, <<1>>)

\* get_child: the first child whose local name is name_lc, 0 for None
get_child(d, e, name_lc) ==
    LET cs == Children(d, e)
        hit == {j \in 1..Len(cs) : local(d[cs[j]].tag) = name_lc}
    IN  IF hit = {} THEN 0 ELSE cs[CHOOSE j \in hit : \A h \in hit : j <= h]

get_child_text(d, e, name_lc) ==
    LET c == get_child(d, e, name_lc)
    IN  IF c # 0 THEN strip(d[c].text) ELSE <<>>

\* ensure_child: the document with the child there (created in the parent's
\* namespace when missing); the child itself is get_child of the result
ensure_child(d, e, name_lc) ==
    IF get_child(d, e, name_lc) # 0 THEN d
    ELSE Append(d, [tag    |-> NsPrefix(d[e].tag) \o name_lc,
                    parent |-> e,
                    attrs  |-> NoAttrs,
                    text   |-> <<>>])

\* mutant: the child is created when missing, an existing one is left as it is
SetChildTextIfMissing(d, e, name_lc, t) ==
    IF get_child(d, e, name_lc) # 0 THEN d
    ELSE LET d1 == ensure_child(d, e, name_lc)
         IN  [d1 EXCEPT ![get_child(d1, e, name_lc)].text = t]

\* ensure_child(elem, name).text = t
SetChildText(d, e, name_lc, t) ==
    LET d1 == ensure_child(d, e, name_lc)
    IN  [d1 EXCEPT ![get_child(d1, e, name_lc)].text = t]

\* elem.set(a, v)
SetAttr(d, e, a, v) == [d EXCEPT ![e].attrs[a] = Some(v)]

\* mutant: an empty code attribute counts as a code
LacksCodeAbsentOnly(d, e) == d[e].attrs[code] = None

\* "code" not in elem.attrib or not elem.attrib["code"]
LacksCode(d, e) == d[e].attrs[code] = None \/ d[e].attrs[code] = Some(<<>>)

\* mutant: the code child is promoted over an attribute that is there
PromotesCodeUnguarded(d, e) == get_child_text(d, e, code) # <<>>

\* The code promotion main does on a network (160-163) and a sensorlocation
\* (174-176), force_station_numeric_attrs on a station (103-107) and
\* fix_stream on a stream (132-135): the same four lines at each place.
PromotesCode(d, e) == LacksCode(d, e) /\ get_child_text(d, e, code) # <<>>

PromoteCode(d, e) ==
    IF PromotesCode(d, e) THEN SetAttr(d, e, code, get_child_text(d, e, code)) ELSE d

\* ------------------------------------------------------------ station

\* mutant: no fall back to the child
RawValueAttrOnly(d, sta, a) == strip(AttrGet(d[sta], a))

\* (sta.attrib.get(a, "") or get_child_text(sta, a)).strip()
RawValue(d, sta, a) ==
    strip(IF AttrGet(d[sta], a) # <<>> THEN AttrGet(d[sta], a)
          ELSE get_child_text(d, sta, a))

Coerced(d, sta, a) == norm_num_or_default(RawValue(d, sta, a), DefaultText)

\* if sta.attrib.get(a) != v: sta.set(a, v); changed = True
AttrDiffers(d, sta, a, v) == d[sta].attrs[a] # Some(v)

SetIfDiffers(d, sta, a, v) == IF AttrDiffers(d, sta, a, v) THEN SetAttr(d, sta, a, v) ELSE d

\* mutant: writing a mirror child counts as a change
StationChangedOrMirrored(d, sta) ==
    \/ \E a \in {latitude, longitude, elevation} :
          \/ AttrDiffers(d, sta, a, Coerced(d, sta, a))
          \/ get_child(d, sta, a) = 0
          \/ d[get_child(d, sta, a)].text # Coerced(d, sta, a)
    \/ PromotesCode(d, sta)

\* what force_station_numeric_attrs returns
StationChanged(d, sta) ==
    LET lat == Coerced(d, sta, latitude)
        lon == Coerced(d, sta, longitude)
        ele == Coerced(d, sta, elevation)
        d3  == SetChildText(SetChildText(SetChildText(d, sta, latitude, lat),
                                         sta, longitude, lon), sta, elevation, ele)
    IN  \/ AttrDiffers(d, sta, latitude, lat)
        \/ AttrDiffers(d, sta, longitude, lon)
        \/ AttrDiffers(d, sta, elevation, ele)
        \/ PromotesCode(d3, sta)

\* the station as force_station_numeric_attrs leaves it
force_station_numeric_attrs(d, sta) ==
    LET lat == Coerced(d, sta, latitude)
        lon == Coerced(d, sta, longitude)
        ele == Coerced(d, sta, elevation)
        d1  == SetIfDiffers(SetIfDiffers(SetIfDiffers(d, sta, latitude, lat),
                                         sta, longitude, lon), sta, elevation, ele)
        d2  == SetChildText(SetChildText(SetChildText(d1, sta, latitude, lat),
                                         sta, longitude, lon), sta, elevation, ele)
    IN  PromoteCode(d2, sta)

\* ------------------------------------------------------------ stream

\* e = ensure_child(stream, nm); if not is_float((e.text or "").strip()): e.text = "0.0"
DefaultChild(d, st, nm) ==
    LET d1 == ensure_child(d, st, nm)
        e  == get_child(d1, st, nm)
    IN  IF ~is_float(strip(d1[e].text)) THEN [d1 EXCEPT ![e].text = DefaultText] ELSE d1

\* sr is None or not is_float((sr.text or "").strip())
NeedsRate(d, st) ==
    LET sr == get_child(d, st, samplerate)
    IN  sr = 0 \/ ~is_float(strip(d[sr].text))

\* the try block: val = fnum / fden, 1.0 when the division raises
RateValue(num, den) ==
    LET fnum == IF is_float(num) THEN float(num) ELSE One
        fden == IF is_float(den) /\ ~IsZero(float(den)) THEN float(den) ELSE One
    IN  IF IsZero(fden) THEN One ELSE Divide(fnum, fden)

fix_stream(d, st) ==
    LET d1  == DefaultChild(DefaultChild(d, st, azimuth), st, dip)
        num == get_child_text(d1, st, sampleratenumerator)
        den == get_child_text(d1, st, sampleratedenominator)
        d2  == IF NeedsRate(d1, st)
               THEN SetChildText(d1, st, samplerate, Format6(RateValue(num, den)))
               ELSE d1
    IN  PromoteCode(d2, st)

\* ------------------------------------------------------------ input documents
\* The documents a run is given.  Tags are spelled as SC3ML spells them
\* (sensorLocation, sampleRate); the same document with every tag upper-cased
\* in a namespace is Variant of it.  write_xml followed by read_xml_maybe_gz
\* gives back the tree written (a text of None and one of "" are one here).

MaxNodes == 3

Other == <<"x">>

TagSensorLocation == <<"s","e","n","s","o","r","L","o","c","a","t","i","o","n">>

TagSampleRate == <<"s","a","m","p","l","e","R","a","t","e">>

TagSampleRateNumerator == <<"s","a","m","p","l","e","R","a","t","e","N","u","m","e","r","a","t","o","r">>

TagSampleRateDenominator == <<"s","a","m","p","l","e","R","a","t","e","D","e","n","o","m","i","n","a","t","o","r">>

Ns == <<"{","n","s","}">>

El(tag, parent, attrs, text) ==
    [tag |-> tag, parent |-> parent, attrs |-> attrs, text |-> text]

Attrs(c, lat, lon, ele) ==
    [a \in AttrNames |-> IF a = code THEN c ELSE IF a = latitude THEN lat
                         ELSE IF a = longitude THEN lon ELSE ele]

\* the children a list of <<tag, None | Some(text)>> asks for
RECURSIVE ChildEls(_, _)
ChildEls(parent, specs) ==
    IF specs = <<>> THEN <<>>
    ELSE (IF Head(specs)[2] = None THEN <<>>
          ELSE <<El(Head(specs)[1], parent, NoAttrs, Head(specs)[2][1])>>)
         \o ChildEls(parent, Tail(specs))

Variant(d) ==
    [i \in 1..Len(d) |->
        [d[i] EXCEPT !.tag = IF NsPrefix(d[i].tag) = <<>> THEN Ns \o upper(d[i].tag)
                               ELSE local(d[i].tag)]]

RECURSIVE OnPath(_, _, _)
OnPath(p, from, a) == from # 0 /\ (from = a \/ OnPath(p, p[from], a))

\* parent arrays of the ordered trees of n elements, in document order
Parents(n) ==
    {p \in [1..n -> 0..(n - 1)] :
        /\ p[1] = 0
        /\ \A i \in 2..n : p[i] >= 1 /\ OnPath(p, i - 1, p[i])}

ShapeTags == {network, station, TagSensorLocation, stream, Other}

\* every tree of up to MaxNodes elements over the structural tags
ShapeDocs ==
    UNION {{[i \in 1..n |-> El(k[i], p[i], NoAttrs, <<>>)] :
                k \in [1..n -> ShapeTags], p \in Parents(n)} : n \in 1..MaxNodes}

Good == Some(<<"1",".","5">>)

RichAttr == {None, Some(<<>>), Some(<<" ">>), Some(<<"1",".","5">>), Some(<<" ","2"," ">>), Some(<<"N","/","A">>), Some(<<"n","a","n">>)}

RichChild == {None, Some(<<>>), Some(<<"7">>), Some(<<" ","8"," ">>), Some(<<"N","/","A">>)}

PlainCases == {<<None, None>>, <<Good, Good>>}

CodeCases == {<<None, None>>, <<None, Some(<<"X","X">>)>>, <<Some(<<>>), Some(<<" ","X","X"," ">>)>>,
              <<Some(<<"A","A">>), Some(<<"X","X">>)>>, <<Some(<<" ">>), Some(<<"X","X">>)>>,
              <<None, Some(<<" ">>)>>, <<Some(<<"A","A">>), None>>}

StationCodeCases == {<<None, None>>, <<None, Some(<<"S","T">>)>>, <<Some(<<"A","A">>), Some(<<"S","T">>)>>}

\* network > station, the station's fields given as <<attribute, child text>>
StationDoc(c, lat, lon, ele) ==
    <<El(network, 0, Attrs(Some(<<"N","N">>), None, None, None), <<>>),
      El(station, 1, Attrs(c[1], lat[1], lon[1], ele[1]), <<>>)>>
    \o ChildEls(2, <<<<latitude, lat[2]>>, <<longitude, lon[2]>>,
                      <<elevation, ele[2]>>, <<code, c[2]>>>>)

StationDocs ==
    {StationDoc(c, r, p, q) : c \in StationCodeCases, r \in RichAttr \X RichChild,
                              p \in PlainCases, q \in PlainCases}
    \cup {StationDoc(c, p, r, q) : c \in StationCodeCases, r \in RichAttr \X RichChild,
                                   p \in PlainCases, q \in PlainCases}
    \cup {StationDoc(c, p, q, r) : c \in StationCodeCases, r \in RichAttr \X RichChild,
                                   p \in PlainCases, q \in PlainCases}

\* network > station > sensorLocation > stream, each with its code case
ChainDoc(cn, cs, cl, ct, kids) ==
    <<El(network, 0, Attrs(cn[1], None, None, None), <<>>),
      El(station, 1, Attrs(cs[1], Good, Good, Good), <<>>),
      El(TagSensorLocation, 2, Attrs(cl[1], None, None, None), <<>>),
      El(stream, 3, Attrs(ct[1], None, None, None), <<>>)>>
    \o ChildEls(4, kids \o <<<<code, ct[2]>>>>)
    \o ChildEls(3, <<<<code, cl[2]>>>>)
    \o ChildEls(2, <<<<code, cs[2]>>>>)
    \o ChildEls(1, <<<<code, cn[2]>>>>)

HasCode == <<Some(<<"A","A">>), None>>

AzDipCases == {<<None, None>>, <<Some(<<"N","/","A">>), Some(<<"9","0">>)>>, <<Some(<<"9","0">>), Some(<<>>)>>}

RateTexts == {None, Some(<<>>), Some(<<"N","/","A">>), Some(<<" ","5","0"," ">>), Some(<<"n","a","n">>)}

NumTexts == {None, Some(<<"1","0","0">>), Some(<<"N","/","A">>), Some(<<"i","n","f">>), Some(<<"1">>), Some(<<"2">>), Some(<<"-","0">>), Some(<<" ","7"," ">>)}

DenTexts == {None, Some(<<"1">>), Some(<<"0">>), Some(<<"0",".","0">>), Some(<<"-","0">>), Some(<<"N","/","A">>), Some(<<"3">>), Some(<<"n","a","n">>), Some(<<" ","2"," ">>)}

StreamDocs ==
    {ChainDoc(HasCode, HasCode, HasCode, HasCode,
              <<<<azimuth, ad[1]>>, <<dip, ad[2]>>, <<TagSampleRate, sr>>,
                <<TagSampleRateNumerator, num>>, <<TagSampleRateDenominator, den>>>>) :
        ad \in AzDipCases, sr \in RateTexts, num \in NumTexts, den \in DenTexts}

CodeDocs ==
    {ChainDoc(c, HasCode, HasCode, HasCode, <<>>) : c \in CodeCases}
    \cup {ChainDoc(HasCode, c, HasCode, HasCode, <<>>) : c \in CodeCases}
    \cup {ChainDoc(HasCode, HasCode, c, HasCode, <<>>) : c \in CodeCases}
    \cup {ChainDoc(HasCode, HasCode, HasCode, c, <<>>) : c \in CodeCases}
    \cup {ChainDoc(c, c, c, c, <<>>) : c \in CodeCases}

\* a second same-named child is never the one read or written
TwinDocs ==
    {<<El(network, 0, NoAttrs, <<>>),
       El(code, 1, NoAttrs, a), El(code, 1, NoAttrs, b),
       El(station, 1, NoAttrs, <<>>),
       El(latitude, 4, NoAttrs, a), El(latitude, 4, NoAttrs, b)>> :
        a \in {<<>>, <<"N","N">>}, b \in {<<"9">>}}

InputDocs == ShapeDocs \cup StationDocs \cup StreamDocs \cup CodeDocs \cup TwinDocs

\* ------------------------------------------------------------ main

VARIABLES
    doc,      \* the tree main mutates
    input,    \* the tree as this run read it
    fix,      \* args.fix_channels
    pc,       \* where main is: "iter", "sta", "sl", "str", "done"
    k,        \* elements root.iter() has yielded
    staQ,     \* what is left of list(net)
    slQ,      \* what is left of list(sta)
    strQ,     \* what is left of list(sl)
    total,    \* stations_total
    fixed,    \* stations_fixed
    touched,  \* streams_touched
    bad,      \* the verification pass's count
    run,      \* 1, or 2 for a run that follows another
    mode,     \* "first", or what the second run was given: "rerun" the first's output, "variant" Variant of its input
    first     \* the first run's output and counts

vars == <<doc, input, fix, pc, k, staQ, slQ, strQ, total, fixed, touched, bad, run, mode, first>>

IsTag(d, e, name_lc) == local(d[e].tag) = name_lc

\* the element root.iter() yields next, 0 when it is exhausted
NextElem == LET it == Iter(doc) IN IF k < Len(it) THEN it[k + 1] ELSE 0

\* the verification pass (185-201): stations under a network whose three
\* attributes are not all floats
BadStations(d) ==
    {s \in 1..Len(d) :
        /\ IsTag(d, s, station)
        /\ d[s].parent # 0 /\ IsTag(d, d[s].parent, network)
        /\ ~(/\ is_float(strip(AttrGet(d[s], latitude)))
             /\ is_float(strip(AttrGet(d[s], longitude)))
             /\ is_float(strip(AttrGet(d[s], elevation))))}

Init ==
    /\ doc \in InputDocs
    /\ input = doc
    /\ fix \in BOOLEAN
    /\ mode = "first"
    /\ pc = "iter"
    /\ k = 0
    /\ staQ = <<>> /\ slQ = <<>> /\ strQ = <<>>
    /\ total = 0 /\ fixed = 0 /\ touched = 0 /\ bad = 0
    /\ run = 1
    /\ first = [doc |-> <<>>, total |-> 0, fixed |-> 0, touched |-> 0]

\* for net in root.iter(): if local(net.tag) != "network": continue
IterSkip ==
    /\ pc = "iter"
    /\ LET e == NextElem IN e # 0 /\ ~IsTag(doc, e, network)
    /\ k' = k + 1
    /\ UNCHANGED <<doc, input, fix, pc, staQ, slQ, strQ, total, fixed, touched, bad, run, mode, first>>

\* a network: promote its code, then list(net)
VisitNetwork ==
    /\ pc = "iter"
    /\ LET net == NextElem
       IN  /\ net # 0 /\ IsTag(doc, net, network)
           /\ doc' = PromoteCode(doc, net)
           /\ staQ' = Children(doc, net)
    /\ k' = k + 1
    /\ pc' = "sta"
    /\ UNCHANGED <<input, fix, slQ, strQ, total, fixed, touched, bad, run, mode, first>>

StaSkip ==
    /\ pc = "sta" /\ staQ # <<>>
    /\ ~IsTag(doc, Head(staQ), station)
    /\ staQ' = Tail(staQ)
    /\ UNCHANGED <<doc, input, fix, pc, k, slQ, strQ, total, fixed, touched, bad, run, mode, first>>

\* mutant: the sensor locations are walked whatever the flag says
VisitStationAnyFlag ==
    /\ pc = "sta" /\ staQ # <<>>
    /\ IsTag(doc, Head(staQ), station)
    /\ total' = total + 1
    /\ doc' = force_station_numeric_attrs(doc, Head(staQ))
    /\ fixed' = IF StationChanged(doc, Head(staQ)) THEN fixed + 1 ELSE fixed
    /\ staQ' = Tail(staQ)
    /\ slQ' = Children(doc', Head(staQ)) /\ pc' = "sl"
    /\ UNCHANGED <<input, fix, k, strQ, touched, bad, run, mode, first>>

\* a station: count it, fix it, count it as fixed when that returned True
VisitStation ==
    /\ pc = "sta" /\ staQ # <<>>
    /\ IsTag(doc, Head(staQ), station)
    /\ total' = total + 1
    /\ doc' = force_station_numeric_attrs(doc, Head(staQ))
    /\ fixed' = IF StationChanged(doc, Head(staQ)) THEN fixed + 1 ELSE fixed
    /\ staQ' = Tail(staQ)
    /\ IF fix THEN slQ' = Children(doc', Head(staQ)) /\ pc' = "sl"
              ELSE UNCHANGED <<slQ, pc>>
    /\ UNCHANGED <<input, fix, k, strQ, touched, bad, run, mode, first>>

StaEnd ==
    /\ pc = "sta" /\ staQ = <<>>
    /\ pc' = "iter"
    /\ UNCHANGED <<doc, input, fix, k, staQ, slQ, strQ, total, fixed, touched, bad, run, mode, first>>

SlSkip ==
    /\ pc = "sl" /\ slQ # <<>>
    /\ ~IsTag(doc, Head(slQ), sensorlocation)
    /\ slQ' = Tail(slQ)
    /\ UNCHANGED <<doc, input, fix, pc, k, staQ, strQ, total, fixed, touched, bad, run, mode, first>>

VisitSensorLocation ==
    /\ pc = "sl" /\ slQ # <<>>
    /\ IsTag(doc, Head(slQ), sensorlocation)
    /\ doc' = PromoteCode(doc, Head(slQ))
    /\ strQ' = Children(doc, Head(slQ))
    /\ slQ' = Tail(slQ)
    /\ pc' = "str"
    /\ UNCHANGED <<input, fix, k, staQ, total, fixed, touched, bad, run, mode, first>>

SlEnd ==
    /\ pc = "sl" /\ slQ = <<>>
    /\ pc' = "sta"
    /\ UNCHANGED <<doc, input, fix, k, staQ, slQ, strQ, total, fixed, touched, bad, run, mode, first>>

StreamSkip ==
    /\ pc = "str" /\ strQ # <<>>
    /\ ~IsTag(doc, Head(strQ), stream)
    /\ strQ' = Tail(strQ)
    /\ UNCHANGED <<doc, input, fix, pc, k, staQ, slQ, total, fixed, touched, bad, run, mode, first>>

VisitStream ==
    /\ pc = "str" /\ strQ # <<>>
    /\ IsTag(doc, Head(strQ), stream)
    /\ doc' = fix_stream(doc, Head(strQ))
    /\ touched' = touched + 1
    /\ strQ' = Tail(strQ)
    /\ UNCHANGED <<input, fix, pc, k, staQ, slQ, total, fixed, bad, run, mode, first>>

StreamEnd ==
    /\ pc = "str" /\ strQ = <<>>
    /\ pc' = "sl"
    /\ UNCHANGED <<doc, input, fix, k, staQ, slQ, strQ, total, fixed, touched, bad, run, mode, first>>

\* the walk is over: write the tree, read it back and count what is still bad
WriteAndVerify ==
    /\ pc = "iter" /\ NextElem = 0
    /\ bad' = Cardinality(BadStations(doc))
    /\ pc' = "done"
    /\ UNCHANGED <<doc, input, fix, k, staQ, slQ, strQ, total, fixed, touched, run, mode, first>>

Restart ==
    /\ first' = [doc |-> doc, total |-> total, fixed |-> fixed, touched |-> touched]
    /\ run' = 2
    /\ pc' = "iter"
    /\ k' = 0
    /\ total' = 0 /\ fixed' = 0 /\ touched' = 0 /\ bad' = 0
    /\ UNCHANGED <<staQ, slQ, strQ>>

\* a second run, given the first run's output
Rerun ==
    /\ pc = "done" /\ run = 1
    /\ Restart
    /\ mode' = "rerun"
    /\ input' = doc
    /\ fix' \in BOOLEAN
    /\ UNCHANGED doc

\* a second run, given the first run's input with its tags respelled
RunVariant ==
    /\ pc = "done" /\ run = 1
    /\ Restart
    /\ mode' = "variant"
    /\ doc' = Variant(input)
    /\ input' = doc'
    /\ UNCHANGED fix

Next ==
    \/ IterSkip \/ VisitNetwork
    \/ StaSkip \/ VisitStation \/ StaEnd
    \/ SlSkip \/ VisitSensorLocation \/ SlEnd
    \/ StreamSkip \/ VisitStream \/ StreamEnd
    \/ WriteAndVerify
    \/ Rerun \/ RunVariant

Spec == Init /\ [][Next]_vars

\* ------------------------------------------------------------ what the claims speak of
\* These read a document's structure alone, never main's position in it.

Done == pc = "done"

Coords == {latitude, longitude, elevation}

\* a tag's role: its name without the namespace, letter case folded
Role(tag) ==
    LET close == {i \in 1..Len(tag) : tag[i] = "}"}
        from  == IF close = {} THEN 1 ELSE (CHOOSE i \in close : \A j \in close : i <= j) + 1
    IN  [i \in 1..(Len(tag) - from + 1) |-> LowerChar(tag[from + i - 1])]

Named(d, name) == {e \in 1..Len(d) : Role(d[e].tag) = name}

Networks(d) == Named(d, network)

\* station elements that are direct children of a network element
NetStations(d) == {e \in Named(d, station) : d[e].parent \in Networks(d)}

NetSensorLocations(d) == {e \in Named(d, sensorlocation) : d[e].parent \in NetStations(d)}

NetStreams(d) == {e \in Named(d, stream) : d[e].parent \in NetSensorLocations(d)}

\* the elements a run visits
Visited(d, f) ==
    Networks(d) \cup NetStations(d)
        \cup (IF f THEN NetSensorLocations(d) \cup NetStreams(d) ELSE {})

\* the first child of e with the given role, 0 when there is none
FirstChild(d, e, name) ==
    LET cs == {c \in Named(d, name) : d[c].parent = e}
    IN  IF cs = {} THEN 0 ELSE CHOOSE c \in cs : \A x \in cs : c <= x

\* its trimmed text, empty when there is no such child
FirstChildText(d, e, name) ==
    IF FirstChild(d, e, name) = 0 THEN <<>> ELSE strip(d[FirstChild(d, e, name)].text)

NonEmptyAttr(d, e, a) == d[e].attrs[a] # None /\ d[e].attrs[a][1] # <<>>

ParsesAsFloat(v) == v # None /\ is_float(v[1])

C2_Idempotence ==
    (Done /\ run = 2 /\ mode = "rerun") =>
        /\ fixed = 0
        /\ \A s \in Named(first.doc, station) : \A a \in Coords :
              doc[s].attrs[a] = first.doc[s].attrs[a]

C2_Witness ==
    /\ Done /\ run = 2 /\ mode = "rerun"
    /\ first.fixed > 0
    /\ \E s \in NetStations(doc) : FirstChildText(doc, s, code) # <<>>

\* ------------------------------------------------------------ C3
\* C3 as stated: the raw value is the attribute's value when the attribute is
\* present, otherwise the first same-named child's text; the attribute written
\* is the raw value when that parses as a float and "0.0" otherwise.
RawAsStated(d, s, a) ==
    IF d[s].attrs[a] # None THEN d[s].attrs[a][1] ELSE FirstChildText(d, s, a)

C3_AsStated ==
    Done => \A s \in NetStations(input) : \A a \in Coords :
              doc[s].attrs[a] = Some(IF is_float(RawAsStated(input, s, a))
                                     THEN RawAsStated(input, s, a) ELSE <<"0",".","0">>)

\* C3 (amended): the raw value is the attribute's value when the attribute is
\* present and not empty, otherwise the first same-named child's text, in
\* both cases trimmed of surrounding white space; the attribute written is the
\* raw value when that parses as a float and "0.0" otherwise.
RawAmended(d, s, a) ==
    strip(IF NonEmptyAttr(d, s, a) THEN d[s].attrs[a][1] ELSE FirstChildText(d, s, a))

Expected(d, s, a) == IF is_float(RawAmended(d, s, a)) THEN RawAmended(d, s, a) ELSE <<"0",".","0">>

C3_CoercionPolicy ==
    Done => \A s \in NetStations(input) : \A a \in Coords :
              doc[s].attrs[a] = Some(Expected(input, s, a))

\* an empty attribute beside a numeric child with white space around it
C3_Witness ==
    /\ Done
    /\ \E s \in NetStations(input) : \E a \in Coords :
          /\ input[s].attrs[a] = Some(<<>>)
          /\ FirstChild(input, s, a) # 0
          /\ is_float(input[FirstChild(input, s, a)].text)
          /\ input[FirstChild(input, s, a)].text # FirstChildText(input, s, a)
          /\ doc[s].attrs[a] = Some(FirstChildText(input, s, a))

\* the default: a non-numeric attribute and no child
C3_DefaultReached ==
    /\ Done
    /\ \E s \in NetStations(input) : \E a \in Coords :
          /\ input[s].attrs[a] = Some(<<"N","/","A">>)
          /\ FirstChild(input, s, a) = 0
          /\ doc[s].attrs[a] = Some(<<"0",".","0">>)

\* ------------------------------------------------------------ C4
\* C4: after a station has been fixed, it has a latitude, a longitude and an
\* elevation child, and each one's text equals the attribute of that name.
C4_DualRepresentation ==
    Done => \A s \in NetStations(input) : \A a \in Coords :
              /\ FirstChild(doc, s, a) # 0
              /\ doc[s].attrs[a] = Some(doc[FirstChild(doc, s, a)].text)

\* the value came from an attribute, from a child, and from the default
C4_Witness ==
    /\ Done
    /\ \E s \in NetStations(input) : \E a \in Coords :
          /\ NonEmptyAttr(input, s, a) /\ is_float(input[s].attrs[a][1])
          /\ FirstChild(input, s, a) # 0
          /\ strip(input[FirstChild(input, s, a)].text) # strip(input[s].attrs[a][1])
    /\ \E s \in NetStations(input) : \E a \in Coords :
          input[s].attrs[a] = None /\ FirstChild(input, s, a) = 0

\* ------------------------------------------------------------ C5, C6

\* the text has digits, a point and exactly six digits after it
SixDigitText(t) ==
    LET u == IF t # <<>> /\ Head(t) = "-" THEN Tail(t) ELSE t
    IN  /\ Len(u) >= 8
        /\ u[Len(u) - 6] = "."
        /\ \A i \in 1..Len(u) : i # Len(u) - 6 => u[i] \in {Digits[j] : j \in 1..10}

\* the number of millionths a six-digit text spells
Millionths(t) ==
    LET u == IF t # <<>> /\ Head(t) = "-" THEN Tail(t) ELSE t
    IN  DigitsVal(SubSeq(u, 1, Len(u) - 7) \o SubSeq(u, Len(u) - 5, Len(u)))

Abs(x) == IF x < 0 THEN -x ELSE x

\* t is n/d rounded to six digits after the point (n, d finite, d not zero)
SpellsQuotient(t, n, d) ==
    /\ n.kind = "fin" /\ d.kind = "fin"
    /\ SixDigitText(t)
    /\ 2 * Abs(Millionths(t) * n.d * d.n - 1000000 * n.n * d.d) <= n.d * d.n
    /\ (Head(t) = "-") = (n.neg # d.neg)

NumeratorOf(d, t) ==
    IF is_float(FirstChildText(d, t, sampleratenumerator))
    THEN float(FirstChildText(d, t, sampleratenumerator)) ELSE One

ZeroDenominator(d, t) ==
    /\ is_float(FirstChildText(d, t, sampleratedenominator))
    /\ IsZero(float(FirstChildText(d, t, sampleratedenominator)))

DenominatorOf(d, t) ==
    IF is_float(FirstChildText(d, t, sampleratedenominator)) /\ ~ZeroDenominator(d, t)
    THEN float(FirstChildText(d, t, sampleratedenominator)) ELSE One

NumericRate(d, t) ==
    FirstChild(d, t, samplerate) # 0 /\ is_float(FirstChildText(d, t, samplerate))

\* C5: with channel-fixing enabled, a stream whose sampleRateDenominator is
\* zero gets a sampleRate computed with a denominator of 1.0, and the text
\* written is a finite number, never an infinity or NaN rendering.
C5_ZeroDenominatorFinite ==
    (Done /\ fix) =>
        \A t \in NetStreams(input) :
            (ZeroDenominator(input, t) /\ ~NumericRate(input, t)) =>
                /\ FirstChild(doc, t, samplerate) # 0
                /\ SpellsQuotient(doc[FirstChild(doc, t, samplerate)].text,
                                  NumeratorOf(input, t), One)

\* C6: with channel-fixing enabled, a visited stream without a numeric
\* sampleRate child gets one whose text is numerator/denominator with six
\* digits after the point (numerator 1.0 when missing or non-numeric,
\* denominator 1.0 when missing, non-numeric or zero); a stream whose
\* sampleRate child is numeric keeps that text.
C6_SampleRateDerivation ==
    (Done /\ fix) =>
        \A t \in NetStreams(input) :
            IF NumericRate(input, t)
            THEN doc[FirstChild(doc, t, samplerate)].text
                    = input[FirstChild(input, t, samplerate)].text
            ELSE /\ FirstChild(doc, t, samplerate) # 0
                 /\ SpellsQuotient(doc[FirstChild(doc, t, samplerate)].text,
                                   NumeratorOf(input, t), DenominatorOf(input, t))

\* ------------------------------------------------------------ C7
\* C7: for every visited network and station (and, with channel-fixing,
\* sensorlocation and stream), when the code attribute is absent or empty and
\* the first code child has non-empty trimmed text, the code attribute becomes
\* that text; otherwise the code attribute is left as it was.
C7_CodePromotion ==
    Done => \A e \in Visited(input, fix) :
              doc[e].attrs[code] =
                  IF ~NonEmptyAttr(input, e, code) /\ FirstChildText(input, e, code) # <<>>
                  THEN Some(FirstChildText(input, e, code))
                  ELSE input[e].attrs[code]

C7_Witness ==
    /\ Done /\ fix
    /\ \E e \in Networks(input) :
          input[e].attrs[code] = None /\ doc[e].attrs[code] = Some(<<"X","X">>)
    /\ \E e \in NetStreams(input) :
          ~NonEmptyAttr(input, e, code) /\ doc[e].attrs[code] = Some(<<"X","X">>)

\* ------------------------------------------------------------ C8
\* the document with every tag replaced by its role
ByRole(d) == [i \in 1..Len(d) |-> [d[i] EXCEPT !.tag = Role(d[i].tag)]]

\* C8: a document and the same document with its tags upper-cased in a
\* namespace are normalized identically: the same roles, attribute values and
\* texts result, and the same counts are reported.
C8_NamespaceCaseIndependence ==
    (Done /\ run = 2 /\ mode = "variant") =>
        /\ ByRole(doc) = ByRole(first.doc)
        /\ total = first.total /\ fixed = first.fixed /\ touched = first.touched

C8_Witness ==
    /\ Done /\ run = 2 /\ mode = "variant"
    /\ total > 0 /\ fixed > 0 /\ touched > 0
    /\ \E e \in (Len(input) + 1)..Len(doc) : NsPrefix(doc[e].tag) = Ns

\* ------------------------------------------------------------ C9
MirrorOf(d, f, e) ==
    \/ \E s \in NetStations(d) : \E a \in Coords : e = FirstChild(d, s, a)
    \/ f /\ \E t \in NetStreams(d) : \E a \in {azimuth, dip, samplerate} : e = FirstChild(d, t, a)

\* C9: a run changes only the code of visited elements, the three coordinate
\* attributes of stations under a network, and the text of the latitude /
\* longitude / elevation / azimuth / dip / sampleRate children it writes on
\* them, creating those that are missing; every other element keeps its tag,
\* attributes, text and children, and without channel-fixing no sensorlocation
\* or stream is changed at all.
C9_Frame ==
    /\ Len(doc) >= Len(input)
    /\ \A e \in 1..Len(input) :
          /\ doc[e].tag = input[e].tag /\ doc[e].parent = input[e].parent
          /\ \A a \in AttrNames :
                doc[e].attrs[a] # input[e].attrs[a] =>
                    \/ a = code /\ e \in Visited(input, fix)
                    \/ a \in Coords /\ e \in NetStations(input)
          /\ doc[e].text # input[e].text => MirrorOf(input, fix, e)
    /\ \A e \in (Len(input) + 1)..Len(doc) :
          /\ doc[e].attrs = NoAttrs
          /\ \/ doc[e].parent \in NetStations(input) /\ Role(doc[e].tag) \in Coords
             \/ /\ fix /\ doc[e].parent \in NetStreams(input)
                /\ Role(doc[e].tag) \in {azimuth, dip, samplerate}
          /\ FirstChild(input, doc[e].parent, Role(doc[e].tag)) = 0

\* a run without channel-fixing over a sensorlocation and a stream that
\* channel-fixing would have changed, and a station outside any network
C9_Witness ==
    /\ Done /\ ~fix
    /\ \E l \in NetSensorLocations(input) :
          ~NonEmptyAttr(input, l, code) /\ FirstChildText(input, l, code) # <<>>
    /\ \E t \in NetStreams(input) : FirstChild(input, t, azimuth) = 0
    /\ Len(doc) > Len(input)

\* ------------------------------------------------------------ C10
NeedsFix(d, s) ==
    \/ \E a \in Coords : d[s].attrs[a] # Some(Expected(d, s, a))
    \/ ~NonEmptyAttr(d, s, code) /\ FirstChildText(d, s, code) # <<>>

\* C10: at the end of a run, stations found is the number of station elements
\* directly under a network, and stations fixed is the number of those with a
\* coordinate attribute that differed from its coerced value or with a code
\* promoted; creating or rewriting mirror children does not count, and
\* stations fixed never exceeds stations found.
C10_ChangeTally ==
    Done => /\ total = Cardinality(NetStations(input))
            /\ fixed = Cardinality({s \in NetStations(input) : NeedsFix(input, s)})
            /\ fixed <= total

\* a station left uncounted although its mirror children were created
C10_Witness ==
    /\ Done /\ run = 1
    /\ total = 1 /\ fixed = 0
    /\ Len(doc) > Len(input)
    /\ \E s \in NetStations(input) : \E a \in Coords : FirstChild(input, s, a) = 0

====
